---- MODULE Spec2Model ----
(***************************************************************************)
(* Model of the editor state machine of ratatui-experiment/src/state.rs:   *)
(* struct State and State::accept_input with every handler it calls.       *)
(*                                                                         *)
(* A String is modelled as the sequence of its characters; every character *)
(* carries the width of its UTF-8 encoding, so that the byte offsets that  *)
(* String::insert and String::remove take are computed as Rust computes    *)
(* them.  A panic of the program is the terminal state aborted = TRUE.     *)
(* The filesystem is the variable fs, a map from path to the bytes of the   *)
(* file: a write encodes the String, a read decodes the bytes.             *)
(***************************************************************************)
EXTENDS Integers, Sequences, FiniteSets, TLC

VARIABLES
    current_file_name,  \* Option<String>: <<>> is None, <<s>> is Some(s)
    open_file_name,     \* Option<String>
    input_destination,  \* InputDestination: "Buffer", "Open" or "Save"
    file_contents,      \* String, as a sequence of characters
    messages,           \* Vec<String>
    message_visible,    \* bool
    exited,             \* bool
    cursor,             \* usize
    fs,                 \* the filesystem: path -> contents, or NoFile
    aborted,            \* TRUE once a handler has panicked
    turns,              \* the number of inputs accepted so far
    last,               \* history: the input of the last step and its file operation
    saved,              \* history: the path and document of the last save, until
                        \* the document changes
    \* the process of main.rs
    pc,                 \* where main is
    hook,               \* TRUE once the panic hook is installed
    raw_mode,           \* TRUE while the terminal is in raw mode
    alt_screen,         \* TRUE while the alternate screen is entered
    should_continue,    \* run's loop variable
    pending,            \* the Input that get_input returned, not yet accepted
    event,              \* history: what the last get_input met at the terminal
    main_result,        \* what main returns: "none" while it runs
    restores,           \* calls of restore_terminal
    renders,            \* calls of terminal.draw that returned
    reads               \* calls of get_input that returned an Input

main_vars == <<pc, hook, raw_mode, alt_screen, should_continue, pending, event,
               main_result, restores, renders, reads>>

vars == <<current_file_name, open_file_name, input_destination, file_contents,
          messages, message_visible, exited, cursor, fs, aborted, turns, last,
          saved, main_vars>>

state_vars == <<current_file_name, open_file_name, input_destination,
                file_contents, messages, message_visible, exited, cursor>>

-----------------------------------------------------------------------------
(* Bounds *)

MaxDoc == 2      \* longest document typed, in characters
MaxPath == 1     \* longest file name typed, in characters
MaxMsgs == 2     \* longest message log
MaxTurns == 7    \* longest session, in inputs accepted

(* Characters a front end can deliver in NormalChar: 'a', of one byte, and *)
(* U+00E9 (e acute), of two bytes.  Enter adds the newline.                *)
Chars == {"a", "U+00E9"}
Newline == "\n"
DocChars == Chars \cup {Newline}

\* the UTF-8 encoding of a character
Utf8(c) ==
    CASE c = "a" -> <<97>>
      [] c = Newline -> <<10>>
      [] c = "U+00E9" -> <<195, 169>>

Width(c) == Len(Utf8(c))

SeqsUpTo(S, n) == UNION {[1..k -> S] : k \in 0..n}

Paths == SeqsUpTo(Chars, MaxPath)

NoFile == <<-1>>

-----------------------------------------------------------------------------
(* Option<T> *)

None == <<>>
Some(x) == <<x>>
IsSome(o) == o /= None
Unwrap(o) == o[1]
\* Option::as_deref().unwrap_or("")
UnwrapOrEmpty(o) == IF IsSome(o) THEN Unwrap(o) ELSE <<>>

-----------------------------------------------------------------------------
(* String, with byte offsets *)

RECURSIVE ByteLen(_)
\* str::len: the length in bytes
ByteLen(s) == IF s = <<>> THEN 0 ELSE Width(Head(s)) + ByteLen(Tail(s))

\* str::chars().count()
CharCount(s) == Len(s)

\* str::is_char_boundary: the start of a character, or the end of the string
IsCharBoundary(s, idx) ==
    \E k \in 0..Len(s) : ByteLen(SubSeq(s, 1, k)) = idx

\* the number of characters before byte offset idx, a character boundary
CharsBefore(s, idx) ==
    CHOOSE k \in 0..Len(s) : ByteLen(SubSeq(s, 1, k)) = idx

\* String::insert panics unless idx is a character boundary
InsertPanics(s, idx) == ~IsCharBoundary(s, idx)

StringInsert(s, idx, c) ==
    LET k == CharsBefore(s, idx)
    IN  SubSeq(s, 1, k) \o <<c>> \o SubSeq(s, k + 1, Len(s))

\* String::remove panics unless a character starts at idx
RemovePanics(s, idx) == ~IsCharBoundary(s, idx) \/ idx >= ByteLen(s)

StringRemove(s, idx) ==
    LET k == CharsBefore(s, idx)
    IN  SubSeq(s, 1, k) \o SubSeq(s, k + 2, Len(s))

RECURSIVE as_bytes(_)
\* String::as_bytes
as_bytes(s) == IF s = <<>> THEN <<>> ELSE Utf8(Head(s)) \o as_bytes(Tail(s))

\* the character whose encoding starts the bytes b, if one does
FirstChar(b) == {c \in DocChars : Len(Utf8(c)) <= Len(b)
                                  /\ SubSeq(b, 1, Len(Utf8(c))) = Utf8(c)}

RECURSIVE Utf8Valid(_)
\* String::from_utf8 succeeds
Utf8Valid(b) ==
    \/ b = <<>>
    \/ \E c \in FirstChar(b) : Utf8Valid(SubSeq(b, Len(Utf8(c)) + 1, Len(b)))

RECURSIVE from_utf8_trimmed(_)
\* a decoder that drops a final newline
from_utf8_trimmed(b) ==
    IF b = <<>> \/ b = <<10>> THEN <<>>
    ELSE LET c == CHOOSE x \in FirstChar(b) : TRUE
         IN  <<c>> \o from_utf8_trimmed(SubSeq(b, Len(Utf8(c)) + 1, Len(b)))

RECURSIVE from_utf8(_)
\* String::from_utf8 of valid bytes
from_utf8(b) ==
    IF b = <<>> THEN <<>>
    ELSE LET c == CHOOSE x \in FirstChar(b) : TRUE
         IN  <<c>> \o from_utf8(SubSeq(b, Len(Utf8(c)) + 1, Len(b)))

\* String::pop
StringPop(s) == IF s = <<>> THEN s ELSE SubSeq(s, 1, Len(s) - 1)

-----------------------------------------------------------------------------
(* EditorError and its Display *)

NoFileSpecified == "NoFileSpecified"
IoErrorKinds == {"NotFound", "PermissionDenied", "InvalidData"}

Ok == [ok |-> TRUE, err |-> "", op |-> "none"]
Err(e, o) == [ok |-> FALSE, err |-> e, op |-> o]

to_string(e) ==
    IF e = NoFileSpecified THEN "No file specified" ELSE "IO error: " \o e

-----------------------------------------------------------------------------
(* The filesystem *)

\* fs::write: an empty path names no file; any write may be refused
FsWriteErr(path, denied) ==
    IF path = <<>> THEN "NotFound"
    ELSE IF denied THEN "PermissionDenied"
    ELSE ""

\* fs::read_to_string: the file must exist and hold UTF-8; any read may be
\* refused
FsReadErr(disk, path, denied) ==
    IF path = <<>> \/ disk[path] = NoFile THEN "NotFound"
    ELSE IF denied THEN "PermissionDenied"
    ELSE IF ~Utf8Valid(disk[path]) THEN "InvalidData"
    ELSE ""

-----------------------------------------------------------------------------
(* cursor *)

move_cursor_left(cur) == IF cur > 0 THEN cur - 1 ELSE 0

Min(a, b) == IF a < b THEN a ELSE b

move_cursor_right(cur, contents) == Min(cur + 1, CharCount(contents))

-----------------------------------------------------------------------------
(* messages *)

\* a log that keeps only the newest message
add_message_replacing(msgs, message) == <<message>>

\* a log that puts the newest message first
add_message_front(msgs, message) == <<message>> \o msgs

add_message(msgs, message) == Append(msgs, message)

\* a getter that forgets the visibility filter
latest_message_unfiltered ==
    IF messages /= <<>> THEN Some(messages[Len(messages)]) ELSE None

latest_message ==
    IF messages /= <<>> /\ message_visible
    THEN Some(messages[Len(messages)])
    ELSE None

-----------------------------------------------------------------------------
(* files: each returns the fields it assigns and its Result *)

\* a save that writes the path where the contents belong
save_file_wrong_bytes(denied) ==
    IF ~IsSome(current_file_name)
    THEN [result |-> Err(NoFileSpecified, "none"), fs |-> fs]
    ELSE LET path == Unwrap(current_file_name)
             e == FsWriteErr(path, denied)
         IN  IF e /= ""
             THEN [result |-> Err(e, "write"), fs |-> fs]
             ELSE [result |-> [ok |-> TRUE, err |-> "", op |-> "write"],
                   fs |-> [fs EXCEPT ![path] = as_bytes(path)]]

save_file(denied) ==
    IF ~IsSome(current_file_name)
    THEN [result |-> Err(NoFileSpecified, "none"), fs |-> fs]
    ELSE LET path == Unwrap(current_file_name)
             e == FsWriteErr(path, denied)
         IN  IF e /= ""
             THEN [result |-> Err(e, "write"), fs |-> fs]
             ELSE [result |-> [ok |-> TRUE, err |-> "", op |-> "write"],
                   fs |-> [fs EXCEPT ![path] = as_bytes(file_contents)]]

\* an open that clears the buffer before it reads
open_file_clearing(denied) ==
    IF ~IsSome(open_file_name)
    THEN [result |-> Err(NoFileSpecified, "none"),
          open_file_name |-> None,
          file_contents |-> file_contents,
          current_file_name |-> current_file_name]
    ELSE LET path == Unwrap(open_file_name)
             e == FsReadErr(fs, path, denied)
         IN  IF e /= ""
             THEN [result |-> Err(e, "read"),
                   open_file_name |-> None,
                   file_contents |-> <<>>,
                   current_file_name |-> current_file_name]
             ELSE [result |-> [ok |-> TRUE, err |-> "", op |-> "read"],
                   open_file_name |-> None,
                   file_contents |-> from_utf8(fs[path]),
                   current_file_name |-> Some(path)]

open_file(denied) ==
    IF ~IsSome(open_file_name)
    THEN [result |-> Err(NoFileSpecified, "none"),
          open_file_name |-> None,
          file_contents |-> file_contents,
          current_file_name |-> current_file_name]
    ELSE LET path == Unwrap(open_file_name)
             e == FsReadErr(fs, path, denied)
         IN  IF e /= ""
             THEN [result |-> Err(e, "read"),
                   open_file_name |-> None,
                   file_contents |-> file_contents,
                   current_file_name |-> current_file_name]
             ELSE [result |-> [ok |-> TRUE, err |-> "", op |-> "read"],
                   open_file_name |-> None,
                   file_contents |-> from_utf8(fs[path]),
                   current_file_name |-> Some(path)]

-----------------------------------------------------------------------------
(* history *)

Step(input, from, result) ==
    [input |-> input, from |-> from, ok |-> result.ok,
     err |-> result.err, op |-> result.op]

\* the last save stays on record while the document is what was saved
NextSaved ==
    IF last'.op = "write" /\ last'.ok
    THEN Some([path |-> Unwrap(current_file_name), doc |-> file_contents])
    ELSE IF file_contents' /= file_contents THEN None
    ELSE saved

NoInput == [kind |-> "None", c |-> ""]

NoEvent == [type |-> "none", code |-> "", c |-> "", ctrl |-> FALSE]

\* the name a prompt edits
PromptTextOf(destination) ==
    CASE destination = "Open" -> UnwrapOrEmpty(open_file_name)
      [] destination = "Save" -> UnwrapOrEmpty(current_file_name)
      [] OTHER -> <<>>

-----------------------------------------------------------------------------
(* Default for State, on a disk that holds at most one file: a short text,  *)
(* or bytes that are not UTF-8                                             *)

DiskPaths == Paths \ {<<>>}

EmptyDisk == [p \in DiskPaths |-> NoFile]

InitialDisks ==
    {EmptyDisk} \cup
    {[EmptyDisk EXCEPT ![p] = d] :
        p \in DiskPaths,
        d \in {as_bytes(t) : t \in SeqsUpTo(DocChars, 1)} \cup {<<195>>}}

Init ==
    /\ current_file_name = None
    /\ open_file_name = None
    /\ input_destination = "Buffer"
    /\ file_contents = <<>>
    /\ messages = <<>>
    /\ message_visible = FALSE
    /\ exited = FALSE
    /\ cursor = 0
    /\ fs \in InitialDisks
    /\ aborted = FALSE
    /\ turns = 0
    /\ last = Step("Init", "Buffer", Ok)
    /\ saved = None
    /\ pc = "main"
    /\ hook = FALSE
    /\ raw_mode = FALSE
    /\ alt_screen = FALSE
    /\ should_continue = TRUE
    /\ pending = NoInput
    /\ event = NoEvent
    /\ main_result = "none"
    /\ restores = 0
    /\ renders = 0
    /\ reads = 0

-----------------------------------------------------------------------------
(* accept_input, one action per Input variant *)

InputNone ==
    /\ ~aborted
    /\ turns < MaxTurns
    /\ turns' = turns + 1
    /\ last' = Step("None", input_destination, Ok)
    /\ UNCHANGED <<state_vars, fs, aborted>>
    /\ saved' = NextSaved
    /\ UNCHANGED main_vars

\* a backspace that pops the last character and leaves the cursor
backspace_pop ==
    CASE input_destination = "Buffer" ->
            /\ file_contents' = StringPop(file_contents)
            /\ UNCHANGED <<cursor, aborted, open_file_name, current_file_name>>
      [] input_destination = "Open" ->
            /\ open_file_name' = IF IsSome(open_file_name)
                                 THEN Some(StringPop(Unwrap(open_file_name)))
                                 ELSE None
            /\ UNCHANGED <<cursor, file_contents, aborted, current_file_name>>
      [] input_destination = "Save" ->
            /\ current_file_name' = IF IsSome(current_file_name)
                                    THEN Some(StringPop(Unwrap(current_file_name)))
                                    ELSE None
            /\ UNCHANGED <<cursor, file_contents, aborted, open_file_name>>

backspace ==
    CASE input_destination = "Buffer" ->
            IF cursor > 0
            THEN LET cur == move_cursor_left(cursor)
                 IN  /\ cursor' = cur
                     /\ IF RemovePanics(file_contents, cur)
                        THEN /\ aborted' = TRUE
                             /\ UNCHANGED file_contents
                        ELSE /\ file_contents' = StringRemove(file_contents, cur)
                             /\ UNCHANGED aborted
                     /\ UNCHANGED <<open_file_name, current_file_name>>
            ELSE UNCHANGED <<cursor, file_contents, aborted,
                             open_file_name, current_file_name>>
      [] input_destination = "Open" ->
            /\ open_file_name' = IF IsSome(open_file_name)
                                 THEN Some(StringPop(Unwrap(open_file_name)))
                                 ELSE None
            /\ UNCHANGED <<cursor, file_contents, aborted, current_file_name>>
      [] input_destination = "Save" ->
            /\ current_file_name' = IF IsSome(current_file_name)
                                    THEN Some(StringPop(Unwrap(current_file_name)))
                                    ELSE None
            /\ UNCHANGED <<cursor, file_contents, aborted, open_file_name>>

Backspace ==
    /\ ~aborted
    /\ turns < MaxTurns
    /\ turns' = turns + 1
    /\ backspace
    /\ last' = Step("Backspace", input_destination, Ok)
    /\ UNCHANGED <<input_destination, messages, message_visible, exited, fs>>
    /\ saved' = NextSaved
    /\ UNCHANGED main_vars

add_char(c) ==
    CASE input_destination = "Buffer" ->
            /\ Len(file_contents) < MaxDoc
            /\ IF InsertPanics(file_contents, cursor)
               THEN /\ aborted' = TRUE
                    /\ UNCHANGED <<file_contents, cursor>>
               ELSE /\ file_contents' = StringInsert(file_contents, cursor, c)
                    /\ cursor' = move_cursor_right(cursor, file_contents')
                    /\ UNCHANGED aborted
            /\ UNCHANGED <<open_file_name, current_file_name>>
      [] input_destination = "Open" ->
            /\ Len(UnwrapOrEmpty(open_file_name)) < MaxPath
            /\ open_file_name' = Some(Append(UnwrapOrEmpty(open_file_name), c))
            /\ UNCHANGED <<file_contents, cursor, aborted, current_file_name>>
      [] input_destination = "Save" ->
            /\ Len(UnwrapOrEmpty(current_file_name)) < MaxPath
            /\ current_file_name' = Some(Append(UnwrapOrEmpty(current_file_name), c))
            /\ UNCHANGED <<file_contents, cursor, aborted, open_file_name>>

NormalChar ==
    /\ ~aborted
    /\ turns < MaxTurns
    /\ turns' = turns + 1
    /\ \E c \in Chars : add_char(c)
    /\ last' = Step("NormalChar", input_destination, Ok)
    /\ UNCHANGED <<input_destination, messages, message_visible, exited, fs>>
    /\ saved' = NextSaved
    /\ UNCHANGED main_vars

\* enter, then accept_input's add_message of the error it returned
Enter ==
    /\ ~aborted
    /\ turns < MaxTurns
    /\ turns' = turns + 1
    /\ \E denied \in BOOLEAN :
        CASE input_destination = "Buffer" ->
                /\ add_char(Newline)
                /\ last' = Step("Enter", input_destination, Ok)
                /\ UNCHANGED <<input_destination, messages, message_visible, fs>>
          [] input_destination = "Save" ->
                LET r == save_file(denied)
                IN  /\ r.result.ok \/ Len(messages) < MaxMsgs
                    /\ fs' = r.fs
                    /\ input_destination' = "Buffer"
                    /\ IF r.result.ok
                       THEN /\ message_visible' = FALSE
                            /\ UNCHANGED messages
                       ELSE /\ messages' = add_message(messages, to_string(r.result.err))
                            /\ message_visible' = TRUE
                    /\ last' = Step("Enter", input_destination, r.result)
                    /\ UNCHANGED <<current_file_name, open_file_name,
                                   file_contents, cursor, aborted>>
          [] input_destination = "Open" ->
                LET r == open_file(denied)
                IN  /\ r.result.ok \/ Len(messages) < MaxMsgs
                    /\ open_file_name' = r.open_file_name
                    /\ file_contents' = r.file_contents
                    /\ current_file_name' = r.current_file_name
                    /\ input_destination' = "Buffer"
                    /\ IF r.result.ok
                       THEN /\ message_visible' = FALSE
                            /\ UNCHANGED messages
                       ELSE /\ messages' = add_message(messages, to_string(r.result.err))
                            /\ message_visible' = TRUE
                    /\ last' = Step("Enter", input_destination, r.result)
                    /\ UNCHANGED <<cursor, aborted, fs>>
    /\ UNCHANGED exited
    /\ saved' = NextSaved
    /\ UNCHANGED main_vars

\* a Cancel that toggles the flag
Cancel_toggling ==
    /\ ~aborted
    /\ turns < MaxTurns
    /\ turns' = turns + 1
    /\ exited' = ~exited
    /\ last' = Step("Cancel", input_destination, Ok)
    /\ UNCHANGED <<current_file_name, open_file_name, input_destination,
                   file_contents, messages, message_visible, cursor, fs, aborted>>
    /\ saved' = NextSaved
    /\ UNCHANGED main_vars

Cancel ==
    /\ ~aborted
    /\ turns < MaxTurns
    /\ turns' = turns + 1
    /\ exited' = TRUE
    /\ last' = Step("Cancel", input_destination, Ok)
    /\ UNCHANGED <<current_file_name, open_file_name, input_destination,
                   file_contents, messages, message_visible, cursor, fs, aborted>>
    /\ saved' = NextSaved
    /\ UNCHANGED main_vars

Save ==
    /\ ~aborted
    /\ turns < MaxTurns
    /\ turns' = turns + 1
    /\ input_destination' = "Save"
    /\ last' = Step("Save", input_destination, Ok)
    /\ UNCHANGED <<current_file_name, open_file_name, file_contents, messages,
                   message_visible, exited, cursor, fs, aborted>>
    /\ saved' = NextSaved
    /\ UNCHANGED main_vars

Open ==
    /\ ~aborted
    /\ turns < MaxTurns
    /\ turns' = turns + 1
    /\ input_destination' = "Open"
    /\ last' = Step("Open", input_destination, Ok)
    /\ UNCHANGED <<current_file_name, open_file_name, file_contents, messages,
                   message_visible, exited, cursor, fs, aborted>>
    /\ saved' = NextSaved
    /\ UNCHANGED main_vars

\* a New that also goes back to the buffer
New_leaving_prompt ==
    /\ ~aborted
    /\ turns < MaxTurns
    /\ turns' = turns + 1
    /\ file_contents' = <<>>
    /\ current_file_name' = None
    /\ input_destination' = "Buffer"
    /\ last' = Step("New", input_destination, Ok)
    /\ UNCHANGED <<open_file_name, messages, message_visible,
                   exited, cursor, fs, aborted>>
    /\ saved' = NextSaved
    /\ UNCHANGED main_vars

\* new_file
New ==
    /\ ~aborted
    /\ turns < MaxTurns
    /\ turns' = turns + 1
    /\ file_contents' = <<>>
    /\ current_file_name' = None
    /\ last' = Step("New", input_destination, Ok)
    /\ UNCHANGED <<open_file_name, input_destination, messages, message_visible,
                   exited, cursor, fs, aborted>>
    /\ saved' = NextSaved
    /\ UNCHANGED main_vars

\* clear_message
ClearMessage ==
    /\ ~aborted
    /\ turns < MaxTurns
    /\ turns' = turns + 1
    /\ message_visible' = FALSE
    /\ last' = Step("ClearMessage", input_destination, Ok)
    /\ UNCHANGED <<current_file_name, open_file_name, input_destination,
                   file_contents, messages, exited, cursor, fs, aborted>>
    /\ saved' = NextSaved
    /\ UNCHANGED main_vars

MoveLeft ==
    /\ ~aborted
    /\ turns < MaxTurns
    /\ turns' = turns + 1
    /\ cursor' = move_cursor_left(cursor)
    /\ last' = Step("MoveLeft", input_destination, Ok)
    /\ UNCHANGED <<current_file_name, open_file_name, input_destination,
                   file_contents, messages, message_visible, exited, fs, aborted>>
    /\ saved' = NextSaved
    /\ UNCHANGED main_vars

MoveRight ==
    /\ ~aborted
    /\ turns < MaxTurns
    /\ turns' = turns + 1
    /\ cursor' = move_cursor_right(cursor, file_contents)
    /\ last' = Step("MoveRight", input_destination, Ok)
    /\ UNCHANGED <<current_file_name, open_file_name, input_destination,
                   file_contents, messages, message_visible, exited, fs, aborted>>
    /\ saved' = NextSaved
    /\ UNCHANGED main_vars

Next ==
    \/ InputNone
    \/ Backspace
    \/ Enter
    \/ Cancel
    \/ NormalChar
    \/ Save
    \/ Open
    \/ New
    \/ ClearMessage
    \/ MoveLeft
    \/ MoveRight

Spec == Init /\ [][Next]_vars

\* sessions of NormalChar and Backspace alone, which stay in the buffer
NextEditing ==
    \/ NormalChar
    \/ Backspace

SpecEditing == Init /\ [][NextEditing]_vars

-----------------------------------------------------------------------------
(* main.rs: main, run and the App that run drives.  App has the fields of   *)
(* State without cursor and exited, and edits the end of the buffer.        *)

state_only == <<exited, cursor, last, saved>>

AppInputs ==
    {[kind |-> k, c |-> ""] :
        k \in {"None", "Backspace", "Enter", "Cancel", "Save", "Open", "New",
               "ClearMessage"}}
    \cup {[kind |-> "NormalChar", c |-> c] : c \in Chars}

\* the inputs that keep the buffer, the names and the log within the bounds
AppInputAllowed(input) ==
    CASE input.kind = "NormalChar" ->
            Len(IF input_destination = "Buffer" THEN file_contents
                ELSE PromptTextOf(input_destination))
              < (IF input_destination = "Buffer" THEN MaxDoc ELSE MaxPath)
      [] input.kind = "Enter" ->
            IF input_destination = "Buffer"
            THEN Len(file_contents) < MaxDoc
            ELSE Len(messages) < MaxMsgs
      [] OTHER -> TRUE

\* App::backspace
app_backspace ==
    CASE input_destination = "Buffer" ->
            /\ file_contents' = StringPop(file_contents)
            /\ UNCHANGED <<open_file_name, current_file_name>>
      [] input_destination = "Open" ->
            /\ open_file_name' = IF IsSome(open_file_name)
                                 THEN Some(StringPop(Unwrap(open_file_name)))
                                 ELSE None
            /\ UNCHANGED <<file_contents, current_file_name>>
      [] input_destination = "Save" ->
            /\ current_file_name' = IF IsSome(current_file_name)
                                    THEN Some(StringPop(Unwrap(current_file_name)))
                                    ELSE None
            /\ UNCHANGED <<file_contents, open_file_name>>

\* App::add_char
app_add_char(c) ==
    CASE input_destination = "Buffer" ->
            /\ file_contents' = Append(file_contents, c)
            /\ UNCHANGED <<open_file_name, current_file_name>>
      [] input_destination = "Open" ->
            /\ open_file_name' = Some(Append(UnwrapOrEmpty(open_file_name), c))
            /\ UNCHANGED <<file_contents, current_file_name>>
      [] input_destination = "Save" ->
            /\ current_file_name' = Some(Append(UnwrapOrEmpty(current_file_name), c))
            /\ UNCHANGED <<file_contents, open_file_name>>

\* App::enter, then accept_input's add_message of the error it returned
app_enter(denied) ==
    CASE input_destination = "Buffer" ->
            /\ file_contents' = Append(file_contents, Newline)
            /\ UNCHANGED <<open_file_name, current_file_name, input_destination,
                           messages, message_visible, fs>>
      [] input_destination = "Save" ->
            LET r == save_file(denied)
            IN  /\ fs' = r.fs
                /\ input_destination' = "Buffer"
                /\ IF r.result.ok
                   THEN /\ message_visible' = FALSE
                        /\ UNCHANGED messages
                   ELSE /\ messages' = add_message(messages, to_string(r.result.err))
                        /\ message_visible' = TRUE
                /\ UNCHANGED <<current_file_name, open_file_name, file_contents>>
      [] input_destination = "Open" ->
            LET r == open_file(denied)
            IN  /\ open_file_name' = r.open_file_name
                /\ file_contents' = r.file_contents
                /\ current_file_name' = r.current_file_name
                /\ input_destination' = "Buffer"
                /\ IF r.result.ok
                   THEN /\ message_visible' = FALSE
                        /\ UNCHANGED messages
                   ELSE /\ messages' = add_message(messages, to_string(r.result.err))
                        /\ message_visible' = TRUE
                /\ UNCHANGED fs

\* App::accept_input, but for the value it returns
app_accept_input(input, denied) ==
    CASE input.kind = "None" ->
            UNCHANGED <<current_file_name, open_file_name, input_destination,
                        file_contents, messages, message_visible, fs>>
      [] input.kind = "Backspace" ->
            /\ app_backspace
            /\ UNCHANGED <<input_destination, messages, message_visible, fs>>
      [] input.kind = "Enter" -> app_enter(denied)
      [] input.kind = "Cancel" ->
            UNCHANGED <<current_file_name, open_file_name, input_destination,
                        file_contents, messages, message_visible, fs>>
      [] input.kind = "NormalChar" ->
            /\ app_add_char(input.c)
            /\ UNCHANGED <<input_destination, messages, message_visible, fs>>
      [] input.kind = "Save" ->
            /\ input_destination' = "Save"
            /\ UNCHANGED <<current_file_name, open_file_name, file_contents,
                           messages, message_visible, fs>>
      [] input.kind = "Open" ->
            /\ input_destination' = "Open"
            /\ UNCHANGED <<current_file_name, open_file_name, file_contents,
                           messages, message_visible, fs>>
      [] input.kind = "New" ->
            /\ file_contents' = <<>>
            /\ current_file_name' = None
            /\ UNCHANGED <<open_file_name, input_destination, messages,
                           message_visible, fs>>
      [] input.kind = "ClearMessage" ->
            /\ message_visible' = FALSE
            /\ UNCHANGED <<current_file_name, open_file_name, input_destination,
                           file_contents, messages, fs>>

\* an accept_input that never asks the loop to stop
app_continue_always(input) == TRUE

\* the value App::accept_input returns: false for Cancel alone
app_continue(input) == input.kind /= "Cancel"

\* restore_terminal: either call in it may fail, and the first failure returns
restore_terminal(out) ==
    [raw_mode |-> IF out = "raw_failed" THEN raw_mode ELSE FALSE,
     alt_screen |-> IF out = "ok" THEN FALSE ELSE alt_screen,
     ok |-> out = "ok"]

RestoreOutcomes == {"ok", "raw_failed", "leave_failed"}

app_vars == <<current_file_name, open_file_name, input_destination,
              file_contents, messages, message_visible, fs>>

\* main: setup_panics
SetupPanics ==
    /\ pc = "main"
    /\ hook' = TRUE
    /\ pc' = "run"
    /\ UNCHANGED <<event, app_vars, state_only, aborted, turns, raw_mode, alt_screen,
                   should_continue, pending, main_result, restores, renders, reads>>

\* run, up to the loop: raw mode, alternate screen, Terminal::new, App::default
Setup ==
    /\ pc = "run"
    /\ \E out \in {"ok", "raw_failed", "alt_failed", "new_failed"} :
        /\ raw_mode' = (out /= "raw_failed")
        /\ alt_screen' = (out \in {"ok", "new_failed"})
        /\ pc' = IF out = "ok" THEN "render" ELSE "restore"
        /\ main_result' = IF out = "ok" THEN "none" ELSE "err"
    /\ should_continue' = TRUE
    /\ UNCHANGED <<event, app_vars, state_only, aborted, turns, hook, pending,
                   restores, renders, reads>>

\* terminal.draw(render_app): reads the App; may fail, and may panic
Render ==
    /\ pc = "render"
    /\ \E out \in {"ok", "err", "panic"} :
        /\ renders' = IF out = "ok" THEN renders + 1 ELSE renders
        /\ pc' = CASE out = "ok" -> "get_input"
                   [] out = "err" -> "restore"
                   [] out = "panic" -> "panic"
        /\ main_result' = IF out = "err" THEN "err" ELSE main_result
        /\ aborted' = (out = "panic")
    /\ UNCHANGED <<event, app_vars, state_only, turns, hook, raw_mode, alt_screen,
                   should_continue, pending, restores, reads>>

\* What get_input can meet within its poll: nothing (the timeout), a failure
\* of poll or of read, an event that is no key event (a resize), or a key
\* event: a character with or without Ctrl, Backspace, Enter, or another key
\* (F1).
Event(type, code, c, ctrl) == [type |-> type, code |-> code, c |-> c, ctrl |-> ctrl]

CtrlLetters == {"c", "o", "s", "n", "x"}

KeyEvents ==
    {Event("key", "Char", c, ctrl) : c \in Chars, ctrl \in BOOLEAN}
    \cup {Event("key", "Char", c, TRUE) : c \in CtrlLetters}
    \cup {Event("key", code, "", FALSE) : code \in {"Backspace", "Enter", "F1"}}

RawEvents ==
    {Event(type, "", "", FALSE) : type \in {"timeout", "poll_err", "read_err", "resize"}}
    \cup KeyEvents

InputOf(kind, c) == [ok |-> TRUE, input |-> [kind |-> kind, c |-> c]]

InputErr == [ok |-> FALSE, input |-> NoInput]

\* get_char: the match on the key event, first arm first
get_char(e) ==
    CASE e.code = "Char" /\ e.c = "c" /\ e.ctrl -> InputOf("Cancel", "")
      [] e.code = "Char" /\ e.c = "o" /\ e.ctrl -> InputOf("Open", "")
      [] e.code = "Char" /\ e.c = "s" /\ e.ctrl -> InputOf("Save", "")
      [] e.code = "Char" /\ e.c = "n" /\ e.ctrl -> InputOf("New", "")
      [] e.code = "Char" /\ e.c = "x" /\ e.ctrl -> InputOf("ClearMessage", "")
      [] e.code = "Backspace" -> InputOf("Backspace", "")
      [] e.code = "Enter" -> InputOf("Enter", "")
      [] e.code = "Char" /\ ~(e.ctrl /\ e.c \in CtrlLetters) -> InputOf("NormalChar", e.c)
      [] OTHER -> InputErr

\* get_input: poll, read, and get_char of a key event; anything else that was
\* read falls through to Ok(Input::None)
get_input(e) ==
    CASE e.type = "timeout" -> InputOf("None", "")
      [] e.type \in {"poll_err", "read_err"} -> InputErr
      [] e.type = "key" -> get_char(e)
      [] OTHER -> InputOf("None", "")

GetInput ==
    /\ pc = "get_input"
    /\ \E e \in RawEvents :
        LET r == get_input(e)
        IN  /\ event' = e
            /\ IF r.ok
               THEN /\ AppInputAllowed(r.input)
                    /\ reads + 1 < MaxTurns \/ r.input.kind = "Cancel"
                    /\ pending' = r.input
                    /\ reads' = reads + 1
                    /\ pc' = "apply"
                    /\ UNCHANGED main_result
               ELSE /\ main_result' = "err"
                    /\ pc' = "restore"
                    /\ UNCHANGED <<pending, reads>>
    /\ UNCHANGED <<app_vars, state_only, aborted, turns, hook, raw_mode,
                   alt_screen, should_continue, restores, renders>>

\* should_continue = app.accept_input(input), and the loop's test
Apply ==
    /\ pc = "apply"
    /\ \E denied \in BOOLEAN : app_accept_input(pending, denied)
    /\ turns' = turns + 1
    /\ should_continue' = app_continue(pending)
    /\ pending' = NoInput
    /\ pc' = IF should_continue' THEN "render" ELSE "restore"
    /\ main_result' = IF should_continue' THEN main_result ELSE "ok"
    /\ UNCHANGED <<event, state_only, aborted, hook, raw_mode, alt_screen, restores,
                   renders, reads>>

\* main, after run returned: restore_terminal()?, then run's result
Restore ==
    /\ pc = "restore"
    /\ \E out \in RestoreOutcomes :
        LET r == restore_terminal(out)
        IN  /\ raw_mode' = r.raw_mode
            /\ alt_screen' = r.alt_screen
            /\ main_result' = IF r.ok THEN main_result ELSE "restore_err"
    /\ restores' = restores + 1
    /\ pc' = "done"
    /\ UNCHANGED <<event, app_vars, state_only, aborted, turns, hook, should_continue,
                   pending, renders, reads>>

\* a hook after which main goes on to its own restore
PanicHook_resuming ==
    /\ pc = "panic"
    /\ hook
    /\ \E out \in RestoreOutcomes :
        LET r == restore_terminal(out)
        IN  /\ raw_mode' = r.raw_mode
            /\ alt_screen' = r.alt_screen
            /\ main_result' = IF r.ok THEN "panic" ELSE "abort"
    /\ restores' = restores + 1
    /\ pc' = "restore"
    /\ UNCHANGED <<event, app_vars, state_only, aborted, turns, hook, should_continue,
                   pending, renders, reads>>

\* the hook of setup_panics: restore_terminal().unwrap(), then the original
\* hook; the panic then ends the process without returning to main
PanicHook ==
    /\ pc = "panic"
    /\ hook
    /\ \E out \in RestoreOutcomes :
        LET r == restore_terminal(out)
        IN  /\ raw_mode' = r.raw_mode
            /\ alt_screen' = r.alt_screen
            /\ main_result' = IF r.ok THEN "panic" ELSE "abort"
    /\ restores' = restores + 1
    /\ pc' = "done"
    /\ UNCHANGED <<event, app_vars, state_only, aborted, turns, hook, should_continue,
                   pending, renders, reads>>

NextMain ==
    \/ SetupPanics
    \/ Setup
    \/ Render
    \/ GetInput
    \/ Apply
    \/ Restore
    \/ PanicHook

SpecMain == Init /\ [][NextMain]_vars

-----------------------------------------------------------------------------
TypeOK ==
    /\ input_destination \in {"Buffer", "Open", "Save"}
    /\ cursor \in Nat
    /\ message_visible \in BOOLEAN
    /\ exited \in BOOLEAN
    /\ aborted \in BOOLEAN
    /\ Len(messages) <= MaxMsgs
    /\ Len(file_contents) <= MaxDoc
    /\ turns \in 0..MaxTurns

\* the text of the prompt that is open, as render shows it
PromptText ==
    CASE input_destination = "Open" -> UnwrapOrEmpty(open_file_name)
      [] input_destination = "Save" -> UnwrapOrEmpty(current_file_name)
      [] OTHER -> <<>>

InPrompt == input_destination \in {"Open", "Save"}

-----------------------------------------------------------------------------
(* Properties *)

\* C1: in every reachable state the cursor is an insertion point of the
\* document: 0 <= cursor <= length(document), counted in characters.
C1_CursorWithinDocument ==
    cursor >= 0 /\ cursor <= CharCount(file_contents)

\* C2: accept_input is total: no reachable state and input make it panic.
C2_AcceptInputTotal ==
    ~aborted

\* C3: Enter in the Open prompt with a path whose read succeeds replaces the
\* document by the file's contents, sets cursor to 0, sets current_file_name
\* to the path and returns to the buffer.
C3_OpenSuccess ==
    [][(/\ last'.input = "Enter"
        /\ input_destination = "Open"
        /\ last'.op = "read"
        /\ last'.ok)
       => (/\ as_bytes(file_contents') = fs[PromptText]
           /\ cursor' = 0
           /\ current_file_name' = Some(PromptText)
           /\ input_destination' = "Buffer")]_vars

\* C4: Enter in the Save prompt with a non-empty path whose write succeeds
\* writes exactly the document to that path, leaves current_file_name at that
\* path and the document as it was, and returns to the buffer.
C4_SaveSuccess ==
    [][(/\ last'.input = "Enter"
        /\ input_destination = "Save"
        /\ last'.op = "write"
        /\ last'.ok)
       => (/\ PromptText /= <<>>
           /\ fs'[PromptText] = as_bytes(file_contents)
           /\ \A p \in DOMAIN fs : p /= PromptText => fs'[p] = fs[p]
           /\ current_file_name' = Some(PromptText)
           /\ file_contents' = file_contents
           /\ input_destination' = "Buffer"
           /\ ~aborted')]_vars

\* C4 witness: after typing U+00E9, Save, a, Enter the file a holds that document.
C4_Witness ==
    /\ last.input = "Enter" /\ last.from = "Save" /\ last.op = "write" /\ last.ok
    /\ file_contents = <<"U+00E9">>
    /\ fs[<<"a">>] = <<195, 169>>
    /\ current_file_name = Some(<<"a">>)
    /\ input_destination = "Buffer"

\* C5: New in the buffer empties the document, sets cursor to 0 and
\* current_file_name to None.
C5_NewFile ==
    [][(last'.input = "New" /\ input_destination = "Buffer")
       => (/\ file_contents' = <<>>
           /\ cursor' = 0
           /\ current_file_name' = None)]_vars

\* the text Display gives for the error e
C6_Describes(e) ==
    IF e = "NoFileSpecified" THEN "No file specified" ELSE "IO error: " \o e

\* C6: an Enter in a prompt that fails (I/O error or no file specified) does
\* not panic, returns to the buffer, leaves exited alone, appends exactly one
\* message, the error's text, which latest_message returns; a ClearMessage
\* that follows hides it.
C6_FailedFileOperation ==
    [][/\ (last'.input = "Enter" /\ InPrompt /\ ~last'.ok)
          => (/\ last'.err \in {"NoFileSpecified"} \cup IoErrorKinds
              /\ ~aborted'
              /\ input_destination' = "Buffer"
              /\ exited' = exited
              /\ messages' = Append(messages, C6_Describes(last'.err))
              /\ message_visible'
              /\ latest_message' = Some(C6_Describes(last'.err)))
       /\ (last.input = "Enter" /\ last.from /= "Buffer" /\ ~last.ok
           /\ last'.input = "ClearMessage")
          => (/\ latest_message' = None
              /\ messages' = messages
              /\ input_destination' = "Buffer"
              /\ ~aborted')]_vars

\* C6 witness: an Enter in a prompt has just failed with an I/O error, after
\* an earlier failure: the second message is shown, the session goes on.
C6_Witness ==
    /\ last.input = "Enter" /\ last.from /= "Buffer" /\ ~last.ok
    /\ Len(messages) = 2
    /\ messages[2] \in {"IO error: " \o k : k \in IoErrorKinds}
    /\ latest_message = Some(messages[2])
    /\ input_destination = "Buffer"
    /\ ~exited /\ ~aborted

\* C7: Enter in a prompt whose path text is empty touches no file, records
\* "No file specified", which latest_message returns, and returns to the buffer.
C7_EmptyPathNoFileSpecified ==
    [][(last'.input = "Enter" /\ InPrompt /\ PromptText = <<>>)
       => (/\ last'.op = "none"
           /\ fs' = fs
           /\ latest_message' = Some("No file specified")
           /\ input_destination' = "Buffer")]_vars

\* C8: Enter in the Open prompt whose read fails leaves the document as it
\* was, records an I/O error message that latest_message returns, and returns
\* to the buffer.
C8_OpenFailure ==
    [][(/\ last'.input = "Enter"
        /\ input_destination = "Open"
        /\ last'.op = "read"
        /\ ~last'.ok)
       => (/\ file_contents' = file_contents
           /\ latest_message' \in {Some("IO error: " \o k) : k \in IoErrorKinds}
           /\ input_destination' = "Buffer"
           /\ ~aborted')]_vars

\* C8 witness: a read has failed on a non-empty document.
C8_Witness ==
    /\ last.input = "Enter" /\ last.from = "Open" /\ last.op = "read" /\ ~last.ok
    /\ file_contents /= <<>>
    /\ latest_message = Some("IO error: NotFound")
    /\ input_destination = "Buffer"

\* C9: current_file_name changes only on a successful save or open (to that
\* path) or on New (to None).
C9_CurrentFileNameChanges ==
    [][current_file_name' /= current_file_name
       => \/ (/\ last'.input = "Enter" /\ last'.ok
              /\ last'.op \in {"read", "write"}
              /\ current_file_name' = Some(PromptText))
          \/ (last'.input = "New" /\ current_file_name' = None)]_vars

\* C10: when Open is applied in the buffer, the Open prompt's text is empty
\* right afterwards.
C10_OpenPromptStartsEmpty ==
    [][(last'.input = "Open" /\ input_destination = "Buffer")
       => (input_destination' = "Open" /\ PromptText' = <<>>)]_vars

\* C11: every step that takes the mode from the buffer to a prompt (Save,
\* Open) or from a prompt back to the buffer (Enter) ends with
\* message_visible = FALSE.
C11_TransitionsDismissMessage ==
    [][(\/ (input_destination = "Buffer" /\ input_destination' \in {"Open", "Save"})
        \/ (InPrompt /\ input_destination' = "Buffer"))
       => ~message_visible']_vars

\* C12: round trip: when a Save prompt was completed on a path and then,
\* with no change of the document in between, an Open prompt is completed on
\* the same path and reads it, the document is the document that was saved.
C12_RoundTrip ==
    [][(/\ last'.input = "Enter"
        /\ input_destination = "Open"
        /\ last'.op = "read"
        /\ last'.ok
        /\ IsSome(saved)
        /\ Unwrap(saved).path = PromptText)
       => file_contents' = Unwrap(saved).doc]_vars

\* C12 witness: a document with a two-byte character was saved and read back.
C12_Witness ==
    /\ last.input = "Enter" /\ last.from = "Open" /\ last.op = "read" /\ last.ok
    /\ IsSome(saved)
    /\ current_file_name = Some(Unwrap(saved).path)
    /\ Unwrap(saved).doc = <<"U+00E9">>
    /\ file_contents = <<"U+00E9">>

\* C13: in the buffer, with cursor <= length(document), NormalChar(c) makes c
\* the character at character index cursor, keeps the other characters in
\* order and advances cursor by 1, whatever the width of c; Enter does the
\* same with the newline.
C13_InsertAtCursor ==
    [][(/\ input_destination = "Buffer"
        /\ last'.input \in {"NormalChar", "Enter"}
        /\ cursor <= CharCount(file_contents))
       => (/\ ~aborted'
           /\ \E c \in DocChars :
                /\ last'.input = "Enter" => c = Newline
                /\ last'.input = "NormalChar" => c \in Chars
                /\ file_contents' = SubSeq(file_contents, 1, cursor) \o <<c>>
                       \o SubSeq(file_contents, cursor + 1, Len(file_contents))
           /\ cursor' = cursor + 1)]_vars

\* C14: in the buffer, Backspace with cursor > 0 removes exactly the character
\* at index cursor - 1 and decrements cursor; with cursor = 0 it changes
\* neither the document nor the cursor.
C14_BackspaceAtCursor ==
    [][(input_destination = "Buffer" /\ last'.input = "Backspace")
       => IF cursor > 0
          THEN /\ ~aborted'
               /\ file_contents' = SubSeq(file_contents, 1, cursor - 1)
                      \o SubSeq(file_contents, cursor + 1, Len(file_contents))
               /\ Len(file_contents') = Len(file_contents) - 1
               /\ cursor' = cursor - 1
          ELSE file_contents' = file_contents /\ cursor' = cursor]_vars

\* C15: from the default state, after every input of a session of NormalChar
\* and Backspace alone, which stays in the buffer, cursor is within
\* [0, length(document)].
C15_CursorWithinWhileEditing ==
    /\ input_destination = "Buffer"
    /\ last.input \in {"Init", "NormalChar", "Backspace"}
    /\ 0 <= cursor
    /\ cursor <= CharCount(file_contents)

\* C15 witness: a Backspace has removed one of two characters.
C15_Witness ==
    /\ last.input = "Backspace"
    /\ turns = 3
    /\ Len(file_contents) = 1
    /\ cursor = 1
    /\ ~aborted

\* C16: message_visible implies that messages is not empty, so that
\* latest_message is Some exactly when message_visible is TRUE.
C16_VisibleMeansLogged ==
    /\ message_visible => messages /= <<>>
    /\ IsSome(latest_message) <=> message_visible

\* C16 witness: a message is shown after an Enter that failed.
C16_Witness ==
    /\ message_visible
    /\ latest_message = Some("No file specified")
    /\ last.input = "Enter" /\ ~last.ok

C17_IsPrefix(s, t) == Len(s) <= Len(t) /\ SubSeq(t, 1, Len(s)) = s

\* C17: the message log is append-only: in every step the old log is a prefix
\* of the new one; ClearMessage, in any mode, leaves message_visible FALSE and
\* the log as it was.
C17_LogAppendOnly ==
    [][/\ C17_IsPrefix(messages, messages')
       /\ last'.input = "ClearMessage"
          => (~message_visible' /\ messages' = messages)]_vars

\* C17 witness: ClearMessage was applied in a prompt with two messages logged.
C17_Witness ==
    /\ last.input = "ClearMessage" /\ last.from /= "Buffer"
    /\ Len(messages) = 2
    /\ ~message_visible

\* C18: Cancel, in any mode and with any prompt text, sets exited; once exited
\* is TRUE no input makes it FALSE again.
C18_CancelExits ==
    [][/\ last'.input = "Cancel" => exited'
       /\ exited => exited']_vars

\* C18 witness: Cancel was applied in a prompt with text typed, and inputs
\* were accepted after it.
C18_Witness ==
    /\ exited
    /\ last.input /= "Cancel"
    /\ InPrompt /\ PromptText /= <<>>

\* C19: on every way main ends (Cancel, an error of the setup, of the draw or
\* of get_input, a panic in the loop) restore_terminal has run exactly once:
\* never twice while main runs, once when it has ended; unless that call
\* itself failed, the terminal is then out of raw mode and of the alternate
\* screen.
C19_RestoredExactlyOnce ==
    /\ restores <= 1
    /\ pc = "done" => restores = 1
    /\ (pc = "done" /\ main_result \in {"ok", "err", "panic"})
       => (~raw_mode /\ ~alt_screen)

\* C19 witness: a panic in the second turn's draw, the hook restored the
\* terminal and the process has ended.
C19_Witness ==
    /\ pc = "done"
    /\ main_result = "panic"
    /\ aborted
    /\ renders = 1 /\ turns = 1
    /\ restores = 1

\* C20: a turn is one draw, then one get_input, then one accept_input, in that
\* order; accepting Cancel ends the loop, and after it nothing is drawn, read
\* or accepted.
C20_TurnOrder ==
    [][/\ turns' <= reads' /\ reads' <= renders' /\ renders' <= turns' + 1
       /\ renders' /= renders => (pc = "render" /\ reads = renders /\ turns = reads)
       /\ reads' /= reads => (pc = "get_input" /\ renders = reads + 1 /\ turns = reads)
       /\ turns' /= turns => (pc = "apply" /\ renders = reads /\ reads = turns + 1)
       /\ (pc = "apply" /\ pending.kind = "Cancel") => ~should_continue'
       /\ ~should_continue
          => (/\ renders' = renders /\ reads' = reads /\ turns' = turns
              /\ pending' = pending
              /\ UNCHANGED app_vars)]_vars

\* C20 witness: Cancel was accepted in the third turn and main has ended.
C20_Witness ==
    /\ pc = "done"
    /\ ~should_continue
    /\ main_result = "ok"
    /\ renders = 3 /\ reads = 3 /\ turns = 3

\* C22: a prompt is left through Enter alone: in a prompt, Enter leads to the
\* buffer and every other input leaves the mode a prompt mode.
C22_PromptLeftByEnterOnly ==
    [][InPrompt
       => IF last'.input = "Enter"
          THEN input_destination' = "Buffer"
          ELSE input_destination' \in {"Open", "Save"}]_vars

\* C22 witness: New was applied in the Save prompt after Cancel, and the
\* prompt is still open.
C22_Witness ==
    /\ last.input = "New" /\ last.from = "Save"
    /\ exited
    /\ input_destination = "Save"

\* an event that is none of the intents: no key event, or a key that
\* get_char has no arm for
C21_Unclassifiable(e) ==
    \/ e.type = "resize"
    \/ e.type = "key" /\ e.code = "F1"

\* C21: get_input returns Input::None on the poll timeout alone, and an event
\* that is none of the intents ends get_input with an error for the loop.
C21_NoneOnlyOnTimeout ==
    [][pc = "get_input"
       => (/\ (pc' = "apply" /\ pending'.kind = "None") => event'.type = "timeout"
           /\ C21_Unclassifiable(event')
              => (pc' = "restore" /\ main_result' = "err"))]_vars

====
